---- MODULE Spec2Model ----
(***************************************************************************)
(* PullRequestSidebarEntry.svelte: a sidebar row for one pull request.     *)
(* The state is the component's inputs (the pullRequest prop, the ambient  *)
(* project, the current route path of the page store), what it derives     *)
(* from them (the $derived selected flag and the props handed to           *)
(* SidebarEntry) and the navigation service it calls (goto).               *)
(* Strings are TLA+ strings; an optional value of the source (a field that *)
(* may be undefined) is None or Some(v).                                   *)
(***************************************************************************)
EXTENDS Integers, Sequences, FiniteSets, TLC

VARIABLES project, pullRequest, pathname, selected, entryProps, gotoCalls, navigating

vars == <<project, pullRequest, pathname, selected, entryProps, gotoCalls, navigating>>

\* ---------------------------------------------------------------- bounds
\* goto() calls recorded before the model stops accepting pointer events
MaxGotoCalls == 2

\* ------------------------------------------------------- optional values
None == [defined |-> FALSE]

Some(v) == [defined |-> TRUE, value |-> v]

Optional(S) == {None} \cup {Some(v) : v \in S}

\* JavaScript truthiness of an optional string: undefined and "" are falsy
Truthy(x) == x.defined /\ x.value # ""

\* x || d on an optional string x and a string literal d
OrElse(x, d) == IF Truthy(x) THEN x.value ELSE d

\* a?.f : undefined when a is undefined, else the (optional) field
OptionalChain(a, f) == IF a.defined THEN a.value[f] ELSE None

\* ------------------------------------------------------------ input sets
ProjectIds == {"proj1", "proj2"}

Projects == [id : ProjectIds]

PullRequestNumbers == {7, 42}

Titles == {"Fix bug", "No author"}

AuthorNames == {"", "Alice"}

GravatarUrls == {"", "http://x/a.png"}

Authors == [name : Optional(AuthorNames), gravatarUrl : Optional(GravatarUrls)]

ModifiedAts == {1, 2}

PullRequests ==
  [number : PullRequestNumbers, title : Titles,
   author : Optional(Authors), modifiedAt : ModifiedAts]

\* the two records of the documented examples, at every number: the rows of
\* a sidebar list
ListPullRequests ==
  { pr \in PullRequests :
      \/ /\ pr.title = "Fix bug" /\ pr.modifiedAt = 1
         /\ pr.author = Some([name |-> Some("Alice"), gravatarUrl |-> Some("http://x/a.png")])
      \/ /\ pr.title = "No author" /\ pr.modifiedAt = 2
         /\ pr.author = None }

\* route paths the router may report: the pull-request pages of both
\* projects, and near misses (trailing slash, other page, shorter number)
Pathnames ==
  { "/proj1/pull/7", "/proj1/pull/42", "/proj2/pull/7", "/proj2/pull/42",
    "/proj1/pull/42/", "/proj1/board", "/proj1/pull/4" }

\* ------------------------------------------------------- pure functions
Digit(d) ==
  CASE d = 0 -> "0" [] d = 1 -> "1" [] d = 2 -> "2" [] d = 3 -> "3" [] d = 4 -> "4"
    [] d = 5 -> "5" [] d = 6 -> "6" [] d = 7 -> "7" [] d = 8 -> "8" [] d = 9 -> "9"

RECURSIVE NumberToString(_)
\* ${n} of a template literal, for an integer n
NumberToString(n) ==
  IF n < 0 THEN "-" \o NumberToString(0 - n)
  ELSE IF n < 10 THEN Digit(n)
  ELSE NumberToString(n \div 10) \o Digit(n % 10)

\* a wrong literal segment
formatPullRequestURL_pulls(proj, pullRequestNumber) ==
  "/" \o proj.id \o "/pulls/" \o NumberToString(pullRequestNumber)

formatPullRequestURL(proj, pullRequestNumber) ==
  "/" \o proj.id \o "/pull/" \o NumberToString(pullRequestNumber)

\* drops one trailing slash of a path
StripTrailingSlash(path) ==
  IF Len(path) > 1 /\ SubSeq(path, Len(path), Len(path)) = "/"
  THEN SubSeq(path, 1, Len(path) - 1) ELSE path

\* compares after normalising the route path
Selected_normalised(path, proj, pr) ==
  StripTrailingSlash(path) = formatPullRequestURL(proj, pr.number)

\* compares only the project's pull-request prefix
Selected_prefix(path, proj, pr) ==
  LET prefix == "/" \o proj.id \o "/pull/"
  IN Len(path) > Len(prefix) /\ SubSeq(path, 1, Len(prefix)) = prefix

\* $derived($page.url.pathname === formatPullRequestURL(project, pullRequest.number))
Selected(path, proj, pr) == path = formatPullRequestURL(proj, pr.number)

\* the avatar's lowercase fallback used for the commit author
lastCommitDetails_lowercase(pr) ==
  [authorName |-> OrElse(OptionalChain(pr.author, "name"), "unknown"),
   lastCommitAt |-> pr.modifiedAt]

\* && written for ||
lastCommitDetails_and(pr) ==
  [authorName |-> IF Truthy(OptionalChain(pr.author, "name")) THEN "Unknown" ELSE "",
   lastCommitAt |-> pr.modifiedAt]

lastCommitDetails(pr) ==
  [authorName |-> OrElse(OptionalChain(pr.author, "name"), "Unknown"),
   lastCommitAt |-> pr.modifiedAt]

pullRequestDetails(pr) == [title |-> pr.title]

\* the commit author's capitalised fallback used for the avatar
authorAvatars_capitalised(pr) ==
  IF Truthy(OptionalChain(pr.author, "gravatarUrl"))
  THEN << [avatars |-> << [srcUrl |-> pr.author.value.gravatarUrl.value,
                           name |-> OrElse(pr.author.value.name, "Unknown")] >>] >>
  ELSE << >>

\* the authorAvatars snippet: the AvatarGrouping components it renders
authorAvatars(pr) ==
  IF Truthy(OptionalChain(pr.author, "gravatarUrl"))
  THEN << [avatars |-> << [srcUrl |-> pr.author.value.gravatarUrl.value,
                           name |-> OrElse(pr.author.value.name, "unknown")] >>] >>
  ELSE << >>

\* applied bound to the selected flag
SidebarEntryProps_applied(pr, sel) ==
  [title |-> pr.title,
   remotes |-> << >>,
   local |-> FALSE,
   applied |-> sel,
   lastCommitDetails |-> lastCommitDetails(pr),
   pullRequestDetails |-> pullRequestDetails(pr),
   selected |-> sel,
   authorAvatars |-> authorAvatars(pr)]

\* the props and snippet handed to <SidebarEntry>
SidebarEntryProps(pr, sel) ==
  [title |-> pr.title,
   remotes |-> << >>,
   local |-> FALSE,
   applied |-> FALSE,
   lastCommitDetails |-> lastCommitDetails(pr),
   pullRequestDetails |-> pullRequestDetails(pr),
   selected |-> sel,
   authorAvatars |-> authorAvatars(pr)]

\* selected computed once at mount (a plain const instead of $derived)
Rerender_once ==
  /\ selected' = selected
  /\ entryProps' = [e \in DOMAIN pullRequest' |-> SidebarEntryProps(pullRequest'[e], selected'[e])]

\* ------------------------------------------------------------ reactivity
\* every read of a $derived or of a template expression sees the current
\* inputs: the derived values of the next state are those of its inputs
Rerender ==
  /\ selected' = [e \in DOMAIN pullRequest' |-> Selected(pathname', project', pullRequest'[e])]
  /\ entryProps' = [e \in DOMAIN pullRequest' |-> SidebarEntryProps(pullRequest'[e], selected'[e])]

\* ------------------------------------------------------------------ Init
InitWith(entries, prs) ==
  /\ project \in Projects
  /\ pullRequest \in [entries -> prs]
  /\ pathname \in Pathnames
  /\ selected = [e \in entries |-> Selected(pathname, project, pullRequest[e])]
  /\ entryProps = [e \in entries |-> SidebarEntryProps(pullRequest[e], selected[e])]
  /\ gotoCalls = << >>
  /\ navigating = None

\* one mounted entry, any pull request
Init == InitWith({1}, PullRequests)

\* two entries of one sidebar list under the same project
ListInit == InitWith({1, 2}, ListPullRequests)

\* --------------------------------------------------------------- actions
\* goto(url): the navigation service records the request; the route itself
\* changes later
goto(url) ==
  /\ gotoCalls' = Append(gotoCalls, url)
  /\ navigating' = Some(url)

\* navigates to the pull-request list, without the number
onMouseDown_noNumber(e) ==
  /\ Len(gotoCalls) < MaxGotoCalls
  /\ goto("/" \o project.id \o "/pull/")
  /\ UNCHANGED <<project, pullRequest, pathname>>
  /\ Rerender

\* the handler writes to the record it was given
onMouseDown_mutating(e) ==
  /\ Len(gotoCalls) < MaxGotoCalls
  /\ goto(formatPullRequestURL(project, pullRequest[e].number))
  /\ pullRequest' = [pullRequest EXCEPT ![e].modifiedAt = 3 - @]
  /\ UNCHANGED <<project, pathname>>
  /\ Rerender

\* primary pointer-down on entry e
onMouseDown(e) ==
  /\ Len(gotoCalls) < MaxGotoCalls
  /\ goto(formatPullRequestURL(project, pullRequest[e].number))
  /\ UNCHANGED <<project, pullRequest, pathname>>
  /\ Rerender

\* the parent passes entry e another pull-request record
PropChange(e, pr) ==
  /\ pr # pullRequest[e]
  /\ pullRequest' = [pullRequest EXCEPT ![e] = pr]
  /\ UNCHANGED <<project, pathname, gotoCalls, navigating>>
  /\ Rerender

\* the router completes the navigation it was asked for
RouterCommit ==
  /\ navigating.defined
  /\ pathname' = navigating.value
  /\ navigating' = None
  /\ UNCHANGED <<project, pullRequest, gotoCalls>>
  /\ Rerender

\* the route changes for another reason (another link, back button)
RouteChange(p) ==
  /\ p # pathname
  /\ pathname' = p
  /\ UNCHANGED <<project, pullRequest, gotoCalls, navigating>>
  /\ Rerender

Next ==
  \/ \E e \in DOMAIN pullRequest : onMouseDown(e)
  \/ \E e \in DOMAIN pullRequest : \E pr \in PullRequests : PropChange(e, pr)
  \/ RouterCommit
  \/ \E p \in Pathnames : RouteChange(p)

Spec == Init /\ [][Next]_vars

\* the same operations on the rows of a list
ListNext ==
  \/ \E e \in DOMAIN pullRequest : onMouseDown(e)
  \/ \E e \in DOMAIN pullRequest : \E pr \in ListPullRequests : PropChange(e, pr)
  \/ RouterCommit
  \/ \E p \in Pathnames : RouteChange(p)

ListSpec == ListInit /\ [][ListNext]_vars

\* ================================================================ claims
Entries == DOMAIN pullRequest

DigitValue(c) ==
  CASE c = "0" -> 0 [] c = "1" -> 1 [] c = "2" -> 2 [] c = "3" -> 3 [] c = "4" -> 4
    [] c = "5" -> 5 [] c = "6" -> 6 [] c = "7" -> 7 [] c = "8" -> 8 [] c = "9" -> 9
    [] OTHER -> -1

RECURSIVE ParseDecimal(_)
\* the value of a string of decimal digits, read left to right
ParseDecimal(s) ==
  IF Len(s) = 0 THEN 0
  ELSE 10 * ParseDecimal(SubSeq(s, 1, Len(s) - 1)) + DigitValue(SubSeq(s, Len(s), Len(s)))

\* s is the canonical decimal numeral of n: digits only, no leading zero
IsDecimalOf(s, n) ==
  /\ Len(s) > 0
  /\ \A i \in 1..Len(s) : DigitValue(SubSeq(s, i, i)) >= 0
  /\ Len(s) > 1 => SubSeq(s, 1, 1) # "0"
  /\ ParseDecimal(s) = n

\* u reads "/", then id, then "/pull/", then the decimal numeral of n, and
\* nothing else
IsPullRequestURL(u, id, n) ==
  LET k == Len(id)
  IN /\ Len(u) > k + 7
     /\ SubSeq(u, 1, 1) = "/"
     /\ SubSeq(u, 2, k + 1) = id
     /\ SubSeq(u, k + 2, k + 7) = "/pull/"
     /\ IsDecimalOf(SubSeq(u, k + 8, Len(u)), n)

\* C1: for every project and pull request, the URL computed by
\* formatPullRequestURL is "/" + project.id + "/pull/" + number, the segments
\* in this order and nothing added, and every URL handed to goto is of that
\* form for the project
C1_UrlFormat ==
  /\ \A e \in Entries :
       IsPullRequestURL(formatPullRequestURL(project, pullRequest[e].number),
                        project.id, pullRequest[e].number)
  /\ \A i \in 1..Len(gotoCalls) :
       \E n \in PullRequestNumbers : IsPullRequestURL(gotoCalls[i], project.id, n)

\* the documented example: project proj1, pull request 42, was navigated to
C1_Witness ==
  /\ project.id = "proj1"
  /\ pullRequest[1].number = 42
  /\ Len(gotoCalls) > 0
  /\ gotoCalls[Len(gotoCalls)] = "/proj1/pull/42"

\* C2: in every reachable state the selected flag passed to the entry view
\* (and the derived value behind it) is true exactly when the current route
\* path equals, as a string, the URL this entry navigates to
C2_SelectedIffPathIsUrl ==
  \A e \in Entries :
    /\ entryProps[e].selected = (pathname = formatPullRequestURL(project, pullRequest[e].number))
    /\ selected[e] = entryProps[e].selected

\* a near miss: the route is this entry's URL with a trailing slash, after a
\* navigation, and the entry is not selected
C2_Witness ==
  /\ project.id = "proj1"
  /\ pullRequest[1].number = 42
  /\ pathname = "/proj1/pull/42/"
  /\ gotoCalls # << >>
  /\ ~entryProps[1].selected

\* C3: a pointer-down makes exactly one goto call, whose argument is the URL
\* built from the project's id and the pull request's number at the time of
\* the event, and that URL is the one the selected flag is compared against
C3_PointerDownNavigates ==
  [][gotoCalls' # gotoCalls =>
       \E e \in Entries :
         LET u == gotoCalls'[Len(gotoCalls')]
         IN /\ gotoCalls' = Append(gotoCalls, u)
            /\ navigating' = Some(u)
            /\ IsPullRequestURL(u, project.id, pullRequest[e].number)
            /\ entryProps[e].selected = (pathname = u)
            /\ entryProps'[e].selected = (pathname' = u)]_vars

\* the entry was clicked while its page was not the current route
C3_Witness ==
  /\ Len(gotoCalls) = 1
  /\ gotoCalls[1] = "/proj2/pull/7"
  /\ navigating = Some("/proj2/pull/7")
  /\ pullRequest[1].number = 7
  /\ pathname = "/proj1/board"

\* C4: when the author is undefined, or defined with an undefined name, the
\* last-commit author label is exactly "Unknown"
C4_UnknownAuthor ==
  \A e \in Entries :
    LET author == pullRequest[e].author
    IN (~author.defined \/ ~author.value.name.defined)
         => entryProps[e].lastCommitDetails.authorName = "Unknown"

\* an author that is defined, has an avatar URL and no name
C4_Witness ==
  /\ pullRequest[1].author.defined
  /\ ~pullRequest[1].author.value.name.defined
  /\ Truthy(pullRequest[1].author.value.gravatarUrl)
  /\ entryProps[1].lastCommitDetails.authorName = "Unknown"

\* C5 as stated: whenever author.name is defined, the empty string included,
\* the author label is author.name unchanged, and lastCommitAt is modifiedAt
C5_Original ==
  \A e \in Entries :
    LET author == pullRequest[e].author
    IN /\ (author.defined /\ author.value.name.defined)
            => entryProps[e].lastCommitDetails.authorName = author.value.name.value
       /\ entryProps[e].lastCommitDetails.lastCommitAt = pullRequest[e].modifiedAt

\* C5 amended: the descriptor is (author.name || "Unknown", modifiedAt): a
\* defined, non-empty name is passed unchanged, an empty name gives "Unknown",
\* and lastCommitAt is always modifiedAt
C5_LastCommitDetails ==
  \A e \in Entries :
    LET author == pullRequest[e].author
    IN /\ (author.defined /\ author.value.name.defined /\ author.value.name.value # "")
            => entryProps[e].lastCommitDetails.authorName = author.value.name.value
       /\ (author.defined /\ author.value.name = Some(""))
            => entryProps[e].lastCommitDetails.authorName = "Unknown"
       /\ entryProps[e].lastCommitDetails.lastCommitAt = pullRequest[e].modifiedAt

\* the documented example: Alice, modified at the second timestamp
C5_Witness ==
  /\ pullRequest[1].author.defined
  /\ pullRequest[1].author.value.name = Some("Alice")
  /\ pullRequest[1].modifiedAt = 2
  /\ entryProps[1].lastCommitDetails = [authorName |-> "Alice", lastCommitAt |-> 2]

\* C6 as stated: a present gravatarUrl gives exactly one avatar with that URL
\* and the author's name, "unknown" only when the name is absent; an absent
\* gravatarUrl gives none
C6_Original ==
  \A e \in Entries :
    LET url == OptionalChain(pullRequest[e].author, "gravatarUrl")
        name == OptionalChain(pullRequest[e].author, "name")
    IN IF url.defined
       THEN entryProps[e].authorAvatars =
              << [avatars |-> << [srcUrl |-> url.value,
                                  name |-> IF name.defined THEN name.value ELSE "unknown"] >>] >>
       ELSE entryProps[e].authorAvatars = << >>

\* C6 amended: a non-empty gravatarUrl gives exactly one avatar group with
\* exactly one avatar, srcUrl the URL and name the author's name, or
\* "unknown" when the name is absent or empty; an absent or empty
\* gravatarUrl, or an absent author, renders no avatar group
C6_AuthorAvatars ==
  \A e \in Entries :
    LET url == OptionalChain(pullRequest[e].author, "gravatarUrl")
        name == OptionalChain(pullRequest[e].author, "name")
    IN IF url.defined /\ url.value # ""
       THEN /\ Len(entryProps[e].authorAvatars) = 1
            /\ Len(entryProps[e].authorAvatars[1].avatars) = 1
            /\ entryProps[e].authorAvatars[1].avatars[1].srcUrl = url.value
            /\ entryProps[e].authorAvatars[1].avatars[1].name =
                 (IF name.defined /\ name.value # "" THEN name.value ELSE "unknown")
       ELSE Len(entryProps[e].authorAvatars) = 0

\* an avatar URL without a name: one avatar, named "unknown"
C6_Witness ==
  /\ pullRequest[1].author.defined
  /\ pullRequest[1].author.value.gravatarUrl = Some("http://x/a.png")
  /\ ~pullRequest[1].author.value.name.defined
  /\ entryProps[1].authorAvatars =
       << [avatars |-> << [srcUrl |-> "http://x/a.png", name |-> "unknown"] >>] >>

\* C7: the entry view always receives remotes = the empty list, local = false,
\* applied = false, title = the pull request's title and the descriptor
\* {title}, whatever the author, the route and the selected flag are
C7_FixedProps ==
  \A e \in Entries :
    /\ entryProps[e].remotes = << >>
    /\ entryProps[e].local = FALSE
    /\ entryProps[e].applied = FALSE
    /\ entryProps[e].title = pullRequest[e].title
    /\ entryProps[e].pullRequestDetails = [title |-> pullRequest[e].title]
    /\ DOMAIN entryProps[e].pullRequestDetails = {"title"}

\* a selected entry without author
C7_Witness ==
  /\ entryProps[1].selected
  /\ ~pullRequest[1].author.defined
  /\ pullRequest[1].title = "Fix bug"
  /\ entryProps[1].title = "Fix bug"

\* C8: the project never changes, and every step in which the component
\* acts on its own (a goto call, a recomputation after a route change)
\* leaves the pull-request records as they are; a pointer-down changes
\* nothing but the navigation service
C8_ReadOnlyInputs ==
  [][/\ project' = project
     /\ (gotoCalls' # gotoCalls \/ pathname' # pathname \/ navigating' # navigating)
          => pullRequest' = pullRequest
     /\ gotoCalls' # gotoCalls => pathname' = pathname]_vars

\* two clicks and a completed navigation later
C8_Witness ==
  /\ Len(gotoCalls) = 2
  /\ navigating = None
  /\ pathname = gotoCalls[2]

\* C9 as stated: once the router sets the path to the URL it was asked to
\* navigate to, the entry is selected
C9_Original ==
  [][(navigating.defined /\ pathname' = navigating.value /\ navigating' = None)
       => \A e \in Entries : entryProps'[e].selected]_vars

\* C9 amended: the goto call does not change selected; when the router sets
\* the path to the URL it was asked to navigate to, the entry is selected
\* provided its pull request's number is still the one that URL was built
\* from; and a selected entry stays selected in every step that changes
\* neither the path nor its pull request's number
C9_RoundTrip ==
  [][/\ gotoCalls' # gotoCalls => (selected' = selected /\ entryProps' = entryProps)
     /\ \A e \in Entries :
          (/\ navigating.defined
           /\ pathname' = navigating.value
           /\ IsPullRequestURL(navigating.value, project.id, pullRequest'[e].number))
            => (selected'[e] /\ entryProps'[e].selected)
     /\ \A e \in Entries :
          (/\ entryProps[e].selected
           /\ pathname' = pathname
           /\ pullRequest'[e].number = pullRequest[e].number)
            => entryProps'[e].selected]_vars

\* clicked, the navigation completed, and the entry is selected
C9_Witness ==
  /\ Len(gotoCalls) = 1
  /\ navigating = None
  /\ pathname = gotoCalls[1]
  /\ entryProps[1].selected

\* C10: of two entries under the same project whose pull requests have
\* different numbers, at most one is selected
C10_ExclusiveSelection ==
  \A e1, e2 \in Entries :
    pullRequest[e1].number # pullRequest[e2].number
      => ~(entryProps[e1].selected /\ entryProps[e2].selected)

\* both entries were clicked, the second navigation completed: the second is
\* selected and the first is not
C10_Witness ==
  /\ Entries = {1, 2}
  /\ pullRequest[1].number # pullRequest[2].number
  /\ Len(gotoCalls) = 2
  /\ gotoCalls[1] # gotoCalls[2]
  /\ navigating = None
  /\ entryProps[2].selected
  /\ ~entryProps[1].selected

====
